---- MODULE Spec2Model ----
(***************************************************************************)
(* Role-based access and moderation workflow of the study planner's admin  *)
(* panel (the gated Admin component): the role resolver, the role mutation *)
(* handlers and the complaint resolution handler, run by several mounted   *)
(* Admin components (sessions) against one remote row store.               *)
(***************************************************************************)
EXTENDS Integers, Sequences, FiniteSets, TLC

\* ------------------------------------------------------------------ bounds

\* Longest reply draft typed into the textarea.
MaxLen == 2

\* Most user_roles rows the store ever generates an id for.
MaxRows == 3

\* ------------------------------------------------------------ value spaces

Sessions == {"s1", "s2"}
Accounts == {"a1", "a2"}
ComplaintIds == {"c1", "c2"}
Roles == {"user", "moderator", "admin"}
Chars == {" ", "x"}
WhiteSpace == {" "}
Times == {1}

NoUser == "null"
NoComplaint == "null"

\* An optional column or value: absent, or present with value v.
None == <<>>
Some(v) == <<v>>

\* Every text the textarea can hold: sequences of characters up to MaxLen.
Drafts == UNION {[1..n -> Chars] : n \in 0..MaxLen}

\* --------------------------------------------------------- String.trim()

RECURSIVE TrimStart(_)
TrimStart(str) ==
    IF str # <<>> /\ Head(str) \in WhiteSpace THEN TrimStart(Tail(str)) ELSE str

RECURSIVE TrimEnd(_)
TrimEnd(str) ==
    IF str # <<>> /\ str[Len(str)] \in WhiteSpace
    THEN TrimEnd(SubSeq(str, 1, Len(str) - 1))
    ELSE str

Trim(str) == TrimEnd(TrimStart(str))

\* ------------------------------------------------------------------ state

VARIABLES
    complaintsTable,    \* store: collection complaints, id -> row
    userRolesTable,     \* store: collection user_roles, a set of rows
    nextRoleId,         \* store: the id the next inserted user_roles row gets
    roleLookups,        \* checkUserRole queries in flight
    userReads,          \* loadUsers reads in flight
    roleReads,          \* loadUserRoles reads in flight
    complaintReads,     \* loadComplaints reads in flight
    roleWrites,         \* assignRole upserts and removeRole deletes in flight
    replyWrites,        \* handleReply updates in flight
    user,               \* useAuth().user of each mounted Admin: account id or null
    currentUserRole,
    isLoading,
    pendingLoad,        \* collections the running loadAdminData still awaits
    lateLoad,           \* the same for a loadAdminData started during another
    users,              \* view: rows of the last users read
    userRoles,          \* view: rows of the last user_roles read, newest first
    complaints,         \* view: rows of the last complaints read, newest first
    showRoleModal,
    selectedUser,       \* id of the selected account, or null
    newRole,
    showReplyModal,
    selectedComplaint,  \* id of the selected row, or null
    replyMessage,
    isReplying,
    alertShown,         \* text of the last alert() shown to the operator
    consoleError,       \* text of the last console.error()
    returnedEarly,      \* whether the last handleReply call took its early return
    scenario,           \* how far the subject account is through assign-then-remove
    contactForm,        \* state of a mounted ContactForm and calls to its props
    contactsTable,      \* store: contacts rows
    examForm,           \* state of a mounted ExamForm and calls to its prop
    exams,              \* arguments of the addExam calls
    dashboard           \* state of a mounted Admin of the variant without role check

replyVars == <<complaintsTable, replyWrites, showReplyModal, selectedComplaint,
               replyMessage, isReplying, returnedEarly>>
roleVars == <<userRolesTable, nextRoleId, roleWrites, showRoleModal, selectedUser,
              newRole, scenario>>
resolverVars == <<user, currentUserRole, roleLookups>>
loadVars == <<isLoading, pendingLoad, lateLoad, userReads, roleReads, complaintReads, users,
              userRoles, complaints>>
pageVars == <<contactForm, contactsTable, examForm, exams, dashboard>>
vars == <<replyVars, roleVars, resolverVars, loadVars, alertShown, consoleError,
          returnedEarly, pageVars>>

\* ------------------------------------------------------- store: complaints

\* A complaint as the external submission form creates it.
NewComplaint(c) ==
    [id |-> c, email |-> "x@y.com", phone |-> "555", subject |-> "Bug",
     message |-> "It broke", status |-> "pending",
     created_at |-> IF c = "c1" THEN 1 ELSE 2,
     admin_reply |-> None, replied_at |-> None, replied_by |-> None]

RECURSIVE OrderByCreatedDesc(_)
\* .order('created_at', { ascending: false })
OrderByCreatedDesc(rows) ==
    IF rows = {} THEN <<>>
    ELSE LET newest == CHOOSE r \in rows : \A q \in rows : q.created_at <= r.created_at
         IN <<newest>> \o OrderByCreatedDesc(rows \ {newest})

SelectComplaints(table) == OrderByCreatedDesc({table[c] : c \in DOMAIN table})

\* The body of the update: replied_by is user?.id, and a key whose value is
\* undefined is left out of the request body.
ReplyPatch(draft, now, u) ==
    [status |-> "resolved", admin_reply |-> Some(Trim(draft)),
     replied_at |-> Some(now),
     replied_by |-> IF u = NoUser THEN None ELSE Some(u)]

\* A row after the patch: the columns the body names are set, the rest kept.
ApplyPatch(row, patch) ==
    [row EXCEPT !.status = patch.status,
                !.admin_reply = patch.admin_reply,
                !.replied_at = patch.replied_at,
                !.replied_by = IF patch.replied_by = None THEN @ ELSE patch.replied_by]

\* .update(patch).eq('id', id)
UpdateWhereId(table, id, patch) ==
    [c \in DOMAIN table |->
        IF table[c].id = id THEN ApplyPatch(table[c], patch) ELSE table[c]]

\* -------------------------------------------------------------- rendering

\* The panel is rendered past the Access Denied and the loading branches.
AdminPanelUngated(s) == ~isLoading[s]

AdminPanel(s) == currentUserRole[s] = "admin" /\ ~isLoading[s]

ReplyModalOpen(s) ==
    AdminPanel(s) /\ showReplyModal[s] /\ selectedComplaint[s] # NoComplaint

SendReplyEnabledWhileReplying(s) == Trim(replyMessage[s]) # <<>>

SendReplyEnabled(s) == ~isReplying[s] /\ Trim(replyMessage[s]) # <<>>

\* ------------------------------------------------------------------ reads

\* What a read resolves to: { data, error }.
ReadResult(ok, rows) == Some([error |-> ~ok, data |-> IF ok THEN rows ELSE <<>>])

\* A read request of session s; join: it is one of loadAdminData's Promise.all.
ReadRequest(s, join) == [s |-> s, join |-> join, late |-> FALSE, res |-> None]

\* A read of a loadAdminData that started while another was running.
LateRequest(s) == [s |-> s, join |-> TRUE, late |-> TRUE, res |-> None]

Refetches(reads, s) == {r \in reads : r.s = s /\ ~r.join}

\* The runs explored keep one re-fetch of a collection in flight per session:
\* a write that re-fetches completes once the session's previous re-fetch of
\* that collection has returned.
RefetchFree(reads, s) == Refetches(reads, s) = {}

\* ------------------------------------------------- complaint resolution UI

\* Reply button of a complaint card (shown while the view's row is pending).
ClickReply(s, c) ==
    /\ AdminPanel(s)
    /\ \E i \in DOMAIN complaints[s] :
          complaints[s][i].id = c /\ complaints[s][i].status = "pending"
    /\ selectedComplaint' = [selectedComplaint EXCEPT ![s] = c]
    /\ showReplyModal' = [showReplyModal EXCEPT ![s] = TRUE]
    /\ UNCHANGED <<pageVars, complaintsTable, replyWrites, replyMessage, isReplying,
                   returnedEarly, roleVars, resolverVars, loadVars, alertShown,
                   consoleError>>

\* onChange of the textarea.
TypeReply(s, d) ==
    /\ ReplyModalOpen(s)
    /\ replyMessage' = [replyMessage EXCEPT ![s] = d]
    /\ UNCHANGED <<pageVars, complaintsTable, replyWrites, showReplyModal, selectedComplaint,
                   isReplying, returnedEarly, roleVars, resolverVars, loadVars,
                   alertShown, consoleError>>

\* The X and Cancel buttons of the reply modal.
CancelReply(s) ==
    /\ ReplyModalOpen(s)
    /\ showReplyModal' = [showReplyModal EXCEPT ![s] = FALSE]
    /\ UNCHANGED <<pageVars, complaintsTable, replyWrites, selectedComplaint, replyMessage,
                   isReplying, returnedEarly, roleVars, resolverVars, loadVars,
                   alertShown, consoleError>>

\* ------------------------------------------------------------ handleReply

ReplyRejectedUntrimmed(s) ==
    selectedComplaint[s] = NoComplaint \/ replyMessage[s] = <<>>

\* if (!selectedComplaint || !replyMessage.trim()) return;
ReplyRejected(s) ==
    selectedComplaint[s] = NoComplaint \/ Trim(replyMessage[s]) = <<>>

\* handleReply up to its await: the early return, or setIsReplying(true) and
\* the update request.
HandleReply(s) ==
    /\ returnedEarly' = [returnedEarly EXCEPT ![s] = ReplyRejected(s)]
    /\ IF ReplyRejected(s)
       THEN UNCHANGED <<replyWrites, isReplying>>
       ELSE \E now \in Times :
              /\ isReplying' = [isReplying EXCEPT ![s] = TRUE]
              /\ replyWrites' = replyWrites \cup
                     {[s |-> s, id |-> selectedComplaint[s],
                       patch |-> ReplyPatch(replyMessage[s], now, user[s])]}
    /\ UNCHANGED <<pageVars, complaintsTable, showReplyModal, selectedComplaint, replyMessage,
                   roleVars, resolverVars, loadVars, alertShown, consoleError>>

\* The Send Reply button submits the form; it is disabled while isReplying or
\* while the draft is blank.
ClickSendReply(s) ==
    /\ ReplyModalOpen(s)
    /\ SendReplyEnabled(s)
    /\ HandleReply(s)

\* A submit event that reaches the mounted form while the draft is blank: the
\* button is disabled then, the event is dispatched on the form itself.
SubmitBlankReply(s) ==
    /\ ReplyModalOpen(s)
    /\ Trim(replyMessage[s]) = <<>>
    /\ HandleReply(s)

\* The store applies the update and handleReply resumes after its await.
ReplySucceeded(s, w) ==
    /\ w \in replyWrites /\ w.s = s
    /\ RefetchFree(complaintReads, s)
    /\ complaintsTable' = UpdateWhereId(complaintsTable, w.id, w.patch)
    /\ replyWrites' = replyWrites \ {w}
    /\ showReplyModal' = [showReplyModal EXCEPT ![s] = FALSE]
    /\ selectedComplaint' = [selectedComplaint EXCEPT ![s] = NoComplaint]
    /\ replyMessage' = [replyMessage EXCEPT ![s] = <<>>]
    /\ complaintReads' = complaintReads \cup {ReadRequest(s, FALSE)}
    /\ alertShown' = [alertShown EXCEPT ![s] = "Reply sent successfully!"]
    /\ isReplying' = [isReplying EXCEPT ![s] = FALSE]
    /\ UNCHANGED <<pageVars, returnedEarly, roleVars, resolverVars, isLoading, pendingLoad, lateLoad,
                   userReads, roleReads, users, userRoles, complaints, consoleError>>

\* A catch that tidies the modal up as the success path does.
ReplyFailedClosesModal(s, w) ==
    /\ w \in replyWrites /\ w.s = s
    /\ replyWrites' = replyWrites \ {w}
    /\ showReplyModal' = [showReplyModal EXCEPT ![s] = FALSE]
    /\ selectedComplaint' = [selectedComplaint EXCEPT ![s] = NoComplaint]
    /\ replyMessage' = [replyMessage EXCEPT ![s] = <<>>]
    /\ consoleError' = [consoleError EXCEPT ![s] = "Error sending reply:"]
    /\ alertShown' = [alertShown EXCEPT ![s] = "Failed to send reply. Please try again."]
    /\ isReplying' = [isReplying EXCEPT ![s] = FALSE]
    /\ UNCHANGED <<pageVars, complaintsTable, returnedEarly, roleVars, resolverVars, loadVars>>

\* The store rejects the update: the catch and the finally of handleReply.
ReplyFailed(s, w) ==
    /\ w \in replyWrites /\ w.s = s
    /\ replyWrites' = replyWrites \ {w}
    /\ consoleError' = [consoleError EXCEPT ![s] = "Error sending reply:"]
    /\ alertShown' = [alertShown EXCEPT ![s] = "Failed to send reply. Please try again."]
    /\ isReplying' = [isReplying EXCEPT ![s] = FALSE]
    /\ UNCHANGED <<pageVars, complaintsTable, showReplyModal, selectedComplaint, replyMessage,
                   returnedEarly, roleVars, resolverVars, loadVars>>

\* --------------------------------------------------------- loadComplaints

\* The store answers a complaints read with its rows, or with an error.
ServeComplaintRead(r) ==
    /\ r \in complaintReads /\ r.res = None
    /\ \E ok \in BOOLEAN :
          complaintReads' = (complaintReads \ {r}) \cup
              {[r EXCEPT !.res = ReadResult(ok, SelectComplaints(complaintsTable))]}
    /\ UNCHANGED <<pageVars, replyVars, roleVars, resolverVars, isLoading, pendingLoad, lateLoad,
                   userReads, roleReads, users, userRoles, complaints, alertShown,
                   consoleError>>

\* loadAdminData's finally: setIsLoading(false) once the last of the three
\* reads settles.
Settle(s, r, coll) ==
    /\ pendingLoad' =
          IF r.join /\ ~r.late
          THEN [pendingLoad EXCEPT ![s] = @ \ {coll}] ELSE pendingLoad
    /\ lateLoad' =
          IF r.join /\ r.late
          THEN [lateLoad EXCEPT ![s] = @ \ {coll}] ELSE lateLoad
    /\ isLoading' =
          IF r.join /\ (IF r.late THEN lateLoad[s] ELSE pendingLoad[s]) \ {coll} = {}
          THEN [isLoading EXCEPT ![s] = FALSE]
          ELSE isLoading

ReturnComplaintReadClears(s, r) ==
    /\ r \in complaintReads /\ r.s = s /\ r.res # None
    /\ complaintReads' = complaintReads \ {r}
    /\ IF r.res[1].error
       THEN /\ consoleError' = [consoleError EXCEPT ![s] = "Error loading complaints:"]
            /\ complaints' = [complaints EXCEPT ![s] = <<>>]
       ELSE /\ complaints' = [complaints EXCEPT ![s] = r.res[1].data]
            /\ UNCHANGED consoleError
    /\ Settle(s, r, "complaints")
    /\ UNCHANGED <<pageVars, replyVars, roleVars, resolverVars, userReads, roleReads, users,
                   userRoles, alertShown>>

\* loadComplaints after its await.
ReturnComplaintRead(s, r) ==
    /\ r \in complaintReads /\ r.s = s /\ r.res # None
    /\ complaintReads' = complaintReads \ {r}
    /\ IF r.res[1].error
       THEN /\ consoleError' = [consoleError EXCEPT ![s] = "Error loading complaints:"]
            /\ UNCHANGED complaints
       ELSE /\ complaints' = [complaints EXCEPT ![s] = r.res[1].data]
            /\ UNCHANGED consoleError
    /\ Settle(s, r, "complaints")
    /\ UNCHANGED <<pageVars, replyVars, roleVars, resolverVars, userReads, roleReads, users,
                   userRoles, alertShown>>

\* ------------------------------------------------------------- useAuth()

\* The auth context hands the component another user: an account after a
\* sign-in, null after a sign-out. The effect on [user] runs checkUserRole for
\* an account and does nothing for null.
AuthChange(s, u) ==
    /\ u # NoUser \/ user[s] # NoUser
    /\ user' = [user EXCEPT ![s] = u]
    /\ roleLookups' =
          IF u # NoUser
          THEN roleLookups \cup {[s |-> s, uid |-> u, res |-> None]}
          ELSE roleLookups
    /\ UNCHANGED <<pageVars, replyVars, roleVars, currentUserRole, loadVars, alertShown,
                   consoleError>>

\* ------------------------------------------------------------------ store

UsersTable == {[id |-> a, created_at |-> IF a = "a1" THEN 1 ELSE 2] : a \in Accounts}

RoleRow(id, uid, role, by) ==
    [id |-> id, user_id |-> uid, role |-> role, assigned_by |-> by, created_at |-> id]

\* ----------------------------------------------------- store: user_roles

RowsOf(table, uid) == {r \in table : r.user_id = uid}

\* .upsert({ user_id, role, assigned_by }) with no onConflict option: rows are
\* merged on the primary key id. The body names no id, so the row takes the
\* next generated one; it is merged into a stored row of that id, else inserted.
UpsertRole(table, nid, body) ==
    LET row == RoleRow(nid, body.user_id, body.role, body.assigned_by) IN
    IF \E r \in table : r.id = row.id
    THEN {IF r.id = row.id THEN [row EXCEPT !.created_at = r.created_at] ELSE r :
             r \in table}
    ELSE table \cup {row}

DeleteRoleKeepsRows(table, roleId) == table

\* .delete().eq('id', roleId)
DeleteRole(table, roleId) == {r \in table : r.id # roleId}

\* ------------------------------------------------------ role management UI

\* getUserRole: the role of the first row of the view for the account.
GetUserRole(s, uid) ==
    IF \E i \in DOMAIN userRoles[s] : userRoles[s][i].user_id = uid
    THEN LET first == CHOOSE i \in DOMAIN userRoles[s] :
                 /\ userRoles[s][i].user_id = uid
                 /\ \A j \in 1..(i - 1) : userRoles[s][j].user_id # uid
         IN userRoles[s][first].role
    ELSE "user"

RoleModalOpen(s) == AdminPanel(s) /\ showRoleModal[s] /\ selectedUser[s] # NoUser

RoleWritesOf(s) == {w \in roleWrites : w.s = s}

\* Manage Role button of a row of the users table.
ClickManageRole(s, uid) ==
    /\ AdminPanel(s)
    /\ \E i \in DOMAIN users[s] : users[s][i].id = uid
    /\ selectedUser' = [selectedUser EXCEPT ![s] = uid]
    /\ newRole' = [newRole EXCEPT ![s] = GetUserRole(s, uid)]
    /\ showRoleModal' = [showRoleModal EXCEPT ![s] = TRUE]
    /\ UNCHANGED <<pageVars, userRolesTable, nextRoleId, roleWrites, scenario, replyVars,
                   resolverVars, loadVars, alertShown, consoleError>>

\* onChange of the role select.
SelectNewRole(s, role) ==
    /\ RoleModalOpen(s)
    /\ newRole' = [newRole EXCEPT ![s] = role]
    /\ UNCHANGED <<pageVars, userRolesTable, nextRoleId, roleWrites, showRoleModal,
                   selectedUser, scenario, replyVars, resolverVars, loadVars,
                   alertShown, consoleError>>

\* The X and Cancel buttons of the role modal.
CancelRole(s) ==
    /\ RoleModalOpen(s)
    /\ showRoleModal' = [showRoleModal EXCEPT ![s] = FALSE]
    /\ UNCHANGED <<pageVars, userRolesTable, nextRoleId, roleWrites, selectedUser, newRole,
                   scenario, replyVars, resolverVars, loadVars, alertShown,
                   consoleError>>

\* ------------------------------------------------------------- assignRole

\* assignRole up to its await: if (!selectedUser || !user) return; else the
\* upsert request.
AssignRole(s) ==
    /\ roleWrites' =
          IF selectedUser[s] = NoUser \/ user[s] = NoUser
          THEN roleWrites
          ELSE roleWrites \cup
                 {[s |-> s, op |-> "upsert", id |-> 0, user_id |-> selectedUser[s],
                   role |-> newRole[s], assigned_by |-> user[s]]}
    /\ UNCHANGED <<pageVars, userRolesTable, nextRoleId, showRoleModal, selectedUser, newRole,
                   scenario, replyVars, resolverVars, loadVars, alertShown,
                   consoleError>>

\* The Assign Role button. The runs explored have the operator wait for the
\* outcome of one role write before starting the next, and stop inserting once
\* MaxRows ids are used.
ClickAssignRole(s) ==
    /\ RoleModalOpen(s)
    /\ RoleWritesOf(s) = {}
    /\ nextRoleId <= MaxRows
    /\ AssignRole(s)

\* The subject account's progress through: no row, then one successful
\* assignRole(subject, moderator), then the successful removal of that row.
Subject == "a2"

ScenarioAfterAssign(phase, uid, role) ==
    IF uid # Subject THEN phase
    ELSE IF phase = "fresh" /\ role = "moderator" THEN "assigned" ELSE "off"

ScenarioAfterRemove(phase, table, roleId) ==
    IF ~\E r \in RowsOf(table, Subject) : r.id = roleId THEN phase
    ELSE IF phase = "assigned" THEN "removed" ELSE "off"

\* alert(`Role ${newRole} assigned successfully!`)
RoleAssignedAlert(role) ==
    CASE role = "user" -> "Role user assigned successfully!"
      [] role = "moderator" -> "Role moderator assigned successfully!"
      [] role = "admin" -> "Role admin assigned successfully!"

AssignSucceededOptimistic(s, w) ==
    /\ w \in roleWrites /\ w.s = s /\ w.op = "upsert"
    /\ RefetchFree(roleReads, s)
    /\ userRolesTable' = UpsertRole(userRolesTable, nextRoleId, w)
    /\ nextRoleId' = nextRoleId + 1
    /\ scenario' = ScenarioAfterAssign(scenario, w.user_id, w.role)
    /\ roleWrites' = roleWrites \ {w}
    /\ showRoleModal' = [showRoleModal EXCEPT ![s] = FALSE]
    /\ selectedUser' = [selectedUser EXCEPT ![s] = NoUser]
    /\ userRoles' = [userRoles EXCEPT ![s] = OrderByCreatedDesc(userRolesTable')]
    /\ roleReads' = roleReads \cup {ReadRequest(s, FALSE)}
    /\ alertShown' = [alertShown EXCEPT ![s] = RoleAssignedAlert(w.role)]
    /\ UNCHANGED <<pageVars, newRole, replyVars, resolverVars, isLoading, pendingLoad, lateLoad,
                   userReads, complaintReads, users, complaints, consoleError>>

\* The store applies the upsert and assignRole resumes after its await.
AssignSucceeded(s, w) ==
    /\ w \in roleWrites /\ w.s = s /\ w.op = "upsert"
    /\ RefetchFree(roleReads, s)
    /\ userRolesTable' = UpsertRole(userRolesTable, nextRoleId, w)
    /\ nextRoleId' = nextRoleId + 1
    /\ scenario' = ScenarioAfterAssign(scenario, w.user_id, w.role)
    /\ roleWrites' = roleWrites \ {w}
    /\ showRoleModal' = [showRoleModal EXCEPT ![s] = FALSE]
    /\ selectedUser' = [selectedUser EXCEPT ![s] = NoUser]
    /\ roleReads' = roleReads \cup {ReadRequest(s, FALSE)}
    /\ alertShown' = [alertShown EXCEPT ![s] = RoleAssignedAlert(w.role)]
    /\ UNCHANGED <<pageVars, newRole, replyVars, resolverVars, isLoading, pendingLoad, lateLoad,
                   userReads, complaintReads, users, userRoles, complaints,
                   consoleError>>

AssignFailedRefetches(s, w) ==
    /\ w \in roleWrites /\ w.s = s /\ w.op = "upsert"
    /\ roleWrites' = roleWrites \ {w}
    /\ roleReads' = roleReads \cup {ReadRequest(s, FALSE)}
    /\ consoleError' = [consoleError EXCEPT ![s] = "Error assigning role:"]
    /\ alertShown' = [alertShown EXCEPT ![s] = "Failed to assign role. Please try again."]
    /\ UNCHANGED <<pageVars, userRolesTable, nextRoleId, showRoleModal, selectedUser, newRole,
                   scenario, replyVars, resolverVars, isLoading, pendingLoad, lateLoad,
                   userReads, complaintReads, users, userRoles, complaints>>

\* The store rejects the upsert: the catch of assignRole.
AssignFailed(s, w) ==
    /\ w \in roleWrites /\ w.s = s /\ w.op = "upsert"
    /\ roleWrites' = roleWrites \ {w}
    /\ consoleError' = [consoleError EXCEPT ![s] = "Error assigning role:"]
    /\ alertShown' = [alertShown EXCEPT ![s] = "Failed to assign role. Please try again."]
    /\ UNCHANGED <<pageVars, userRolesTable, nextRoleId, showRoleModal, selectedUser, newRole,
                   scenario, replyVars, resolverVars, loadVars>>

\* ------------------------------------------------------------- removeRole

\* removeRole(roleId) up to its await, called for a row of the rendered list.
RemoveRole(s, roleId) ==
    /\ AdminPanel(s)
    /\ RoleWritesOf(s) = {}
    /\ \E i \in DOMAIN userRoles[s] : userRoles[s][i].id = roleId
    /\ roleWrites' = roleWrites \cup
          {[s |-> s, op |-> "delete", id |-> roleId, user_id |-> "", role |-> "",
            assigned_by |-> ""]}
    /\ UNCHANGED <<pageVars, userRolesTable, nextRoleId, showRoleModal, selectedUser, newRole,
                   scenario, replyVars, resolverVars, loadVars, alertShown,
                   consoleError>>

\* The store applies the delete (to one row or to none) and removeRole resumes.
RemoveSucceeded(s, w) ==
    /\ w \in roleWrites /\ w.s = s /\ w.op = "delete"
    /\ RefetchFree(roleReads, s)
    /\ userRolesTable' = DeleteRole(userRolesTable, w.id)
    /\ scenario' = ScenarioAfterRemove(scenario, userRolesTable, w.id)
    /\ roleWrites' = roleWrites \ {w}
    /\ roleReads' = roleReads \cup {ReadRequest(s, FALSE)}
    /\ alertShown' = [alertShown EXCEPT ![s] = "Role removed successfully!"]
    /\ UNCHANGED <<pageVars, nextRoleId, showRoleModal, selectedUser, newRole, replyVars,
                   resolverVars, isLoading, pendingLoad, lateLoad, userReads, complaintReads,
                   users, userRoles, complaints, consoleError>>

\* The store rejects the delete: the catch of removeRole.
RemoveFailed(s, w) ==
    /\ w \in roleWrites /\ w.s = s /\ w.op = "delete"
    /\ roleWrites' = roleWrites \ {w}
    /\ consoleError' = [consoleError EXCEPT ![s] = "Error removing role:"]
    /\ alertShown' = [alertShown EXCEPT ![s] = "Failed to remove role. Please try again."]
    /\ UNCHANGED <<pageVars, userRolesTable, nextRoleId, showRoleModal, selectedUser, newRole,
                   scenario, replyVars, resolverVars, loadVars>>

\* ------------------------------------------------ loadUserRoles, loadUsers

ServeRoleRead(r) ==
    /\ r \in roleReads /\ r.res = None
    /\ \E ok \in BOOLEAN :
          roleReads' = (roleReads \ {r}) \cup
              {[r EXCEPT !.res = ReadResult(ok, OrderByCreatedDesc(userRolesTable))]}
    /\ UNCHANGED <<pageVars, replyVars, roleVars, resolverVars, isLoading, pendingLoad, lateLoad,
                   userReads, complaintReads, users, userRoles, complaints,
                   alertShown, consoleError>>

\* loadUserRoles after its await.
ReturnRoleRead(s, r) ==
    /\ r \in roleReads /\ r.s = s /\ r.res # None
    /\ roleReads' = roleReads \ {r}
    /\ IF r.res[1].error
       THEN /\ consoleError' = [consoleError EXCEPT ![s] = "Error loading user roles:"]
            /\ UNCHANGED userRoles
       ELSE /\ userRoles' = [userRoles EXCEPT ![s] = r.res[1].data]
            /\ UNCHANGED consoleError
    /\ Settle(s, r, "user_roles")
    /\ UNCHANGED <<pageVars, replyVars, roleVars, resolverVars, userReads, complaintReads,
                   users, complaints, alertShown>>

ServeUserRead(r) ==
    /\ r \in userReads /\ r.res = None
    /\ \E ok \in BOOLEAN :
          userReads' = (userReads \ {r}) \cup
              {[r EXCEPT !.res = ReadResult(ok, OrderByCreatedDesc(UsersTable))]}
    /\ UNCHANGED <<pageVars, replyVars, roleVars, resolverVars, isLoading, pendingLoad, lateLoad,
                   roleReads, complaintReads, users, userRoles, complaints,
                   alertShown, consoleError>>

\* loadUsers after its await.
ReturnUserRead(s, r) ==
    /\ r \in userReads /\ r.s = s /\ r.res # None
    /\ userReads' = userReads \ {r}
    /\ IF r.res[1].error
       THEN /\ consoleError' = [consoleError EXCEPT ![s] = "Error loading users:"]
            /\ UNCHANGED users
       ELSE /\ users' = [users EXCEPT ![s] = r.res[1].data]
            /\ UNCHANGED consoleError
    /\ Settle(s, r, "users")
    /\ UNCHANGED <<pageVars, replyVars, roleVars, resolverVars, roleReads, complaintReads,
                   userRoles, complaints, alertShown>>

\* ---------------------------------------------------------- checkUserRole

LookupsOf(s) == {q \in roleLookups : q.s = s}

\* The store answers .select('role').eq('user_id', uid): the matching rows,
\* unless the request fails with an error result or a thrown exception.
ServeLookup(q) ==
    /\ q \in roleLookups /\ q.res = None
    /\ \E fail \in {"none", "error", "throw"} :
          roleLookups' = (roleLookups \ {q}) \cup
              {[q EXCEPT !.res =
                    Some([fail |-> fail,
                          rows |-> IF fail = "none"
                                   THEN RowsOf(userRolesTable, q.uid) ELSE {}])]}
    /\ UNCHANGED <<pageVars, replyVars, roleVars, user, currentUserRole, loadVars, alertShown,
                   consoleError>>

ResolvedRoleKeepsRole(s, res) ==
    IF res.fail # "none" \/ Cardinality(res.rows) # 1
    THEN currentUserRole[s]
    ELSE (CHOOSE r \in res.rows : TRUE).role

ResolvedRoleAdminOnly(s, res) ==
    IF res.fail # "none" \/ Cardinality(res.rows) # 1
    THEN "user"
    ELSE IF (CHOOSE r \in res.rows : TRUE).role = "admin" THEN "admin" ELSE "user"

\* What checkUserRole passes to setCurrentUserRole. .single() gives an error
\* unless exactly one row matches; an error or an exception gives 'user';
\* otherwise data?.role || 'user'.
ResolvedRole(s, res) ==
    IF res.fail # "none" \/ Cardinality(res.rows) # 1
    THEN "user"
    ELSE LET data == CHOOSE r \in res.rows : TRUE
         IN IF data.role = "" THEN "user" ELSE data.role

AllCollections == {"users", "user_roles", "complaints"}

\* checkUserRole after its await, and the effect on [currentUserRole]: a role
\* that has become admin starts loadAdminData, which sets isLoading and issues
\* the three reads. This is the return that finds no loadAdminData of the
\* session running.
ReturnLookup(s, q) ==
    /\ q \in roleLookups /\ q.s = s /\ q.res # None
    /\ roleLookups' = roleLookups \ {q}
    /\ currentUserRole' = [currentUserRole EXCEPT ![s] = ResolvedRole(s, q.res[1])]
    /\ consoleError' =
          IF q.res[1].fail = "throw"
          THEN [consoleError EXCEPT ![s] = "Error checking user role:"]
          ELSE consoleError
    /\ IF currentUserRole'[s] = "admin" /\ currentUserRole[s] # "admin"
       THEN /\ pendingLoad[s] = {}
            /\ isLoading' = [isLoading EXCEPT ![s] = TRUE]
            /\ pendingLoad' = [pendingLoad EXCEPT ![s] = AllCollections]
            /\ UNCHANGED lateLoad
            /\ userReads' = userReads \cup {ReadRequest(s, TRUE)}
            /\ roleReads' = roleReads \cup {ReadRequest(s, TRUE)}
            /\ complaintReads' = complaintReads \cup {ReadRequest(s, TRUE)}
       ELSE UNCHANGED <<isLoading, pendingLoad, lateLoad, userReads, roleReads, complaintReads>>
    /\ UNCHANGED <<pageVars, replyVars, roleVars, user, users, userRoles, complaints,
                   alertShown>>

\* The return that makes the role admin while a loadAdminData of the session
\* is still running: a second loadAdminData starts beside it. The runs explored
\* have at most two of them running in a session.
ReturnLookupDuringLoad(s, q) ==
    /\ q \in roleLookups /\ q.s = s /\ q.res # None
    /\ roleLookups' = roleLookups \ {q}
    /\ currentUserRole' = [currentUserRole EXCEPT ![s] = ResolvedRole(s, q.res[1])]
    /\ consoleError' =
          IF q.res[1].fail = "throw"
          THEN [consoleError EXCEPT ![s] = "Error checking user role:"]
          ELSE consoleError
    /\ currentUserRole'[s] = "admin" /\ currentUserRole[s] # "admin"
    /\ pendingLoad[s] # {} /\ lateLoad[s] = {}
    /\ isLoading' = [isLoading EXCEPT ![s] = TRUE]
    /\ lateLoad' = [lateLoad EXCEPT ![s] = AllCollections]
    /\ userReads' = userReads \cup {LateRequest(s)}
    /\ roleReads' = roleReads \cup {LateRequest(s)}
    /\ complaintReads' = complaintReads \cup {LateRequest(s)}
    /\ UNCHANGED <<pageVars, replyVars, roleVars, user, pendingLoad, users, userRoles,
                   complaints, alertShown>>

\* A sign-in or sign-out once the session's previous role query has returned.
SignInOut(s, u) ==
    /\ LookupsOf(s) = {}
    /\ AuthChange(s, u)

\* ------------------------------------------------------------ ContactForm

\* What is typed into a field of a form: nothing, a letter, a blank.
FieldValues == {<<>>, <<"x">>, <<" ">>}

\* useState('') three times, useState(false), useState(''); no insert out,
\* neither prop called.
NewContactForm ==
    [name |-> <<>>, email |-> <<>>, message |-> <<>>, loading |-> FALSE,
     error |-> "", inserts |-> {}, onSuccess |-> FALSE, onClose |-> FALSE]

\* onChange of one of the three inputs, while the parent keeps the form mounted.
TypeContact(field, v) ==
    /\ ~contactForm.onClose
    /\ contactForm[field] # v
    /\ contactForm' = [contactForm EXCEPT ![field] = v]
    /\ UNCHANGED <<dashboard, contactsTable, examForm, exams, replyVars, roleVars, resolverVars,
                   loadVars, alertShown, consoleError>>

ContactRejectedNameOnly(f) == f.name = <<>>

\* if (!name || !email || !message)
ContactRejected(f) == f.name = <<>> \/ f.email = <<>> \/ f.message = <<>>

\* ContactForm.handleSubmit up to its await; the Send button is disabled while
\* loading.
SubmitContact ==
    /\ ~contactForm.onClose /\ ~contactForm.loading
    /\ contactForm' =
          IF ContactRejected(contactForm)
          THEN [contactForm EXCEPT !.error = "Please fill in all fields"]
          ELSE [contactForm EXCEPT
                   !.loading = TRUE, !.error = "",
                   !.inserts = @ \cup {[name |-> contactForm.name,
                                        email |-> contactForm.email,
                                        message |-> contactForm.message]}]
    /\ UNCHANGED <<dashboard, contactsTable, examForm, exams, replyVars, roleVars, resolverVars,
                   loadVars, alertShown, consoleError>>

\* The store accepts the insert: fields cleared, onSuccess() and onClose().
ContactInserted(row) ==
    /\ row \in contactForm.inserts
    /\ contactsTable' = contactsTable \cup {row}
    /\ contactForm' = [contactForm EXCEPT
                          !.inserts = @ \ {row}, !.name = <<>>, !.email = <<>>,
                          !.message = <<>>, !.onSuccess = TRUE, !.onClose = TRUE,
                          !.loading = FALSE]
    /\ UNCHANGED <<dashboard, examForm, exams, replyVars, roleVars, resolverVars, loadVars,
                   alertShown, consoleError>>

\* The store rejects the insert: setError(err.message || 'Something went wrong').
ContactInsertFailed(row) ==
    /\ row \in contactForm.inserts
    /\ \E text \in {"store error message", "Something went wrong"} :
          contactForm' = [contactForm EXCEPT
                             !.inserts = @ \ {row}, !.error = text, !.loading = FALSE]
    /\ UNCHANGED <<dashboard, contactsTable, examForm, exams, replyVars, roleVars, resolverVars,
                   loadVars, alertShown, consoleError>>

\* --------------------------------------------------------------- ExamForm

NewExamForm == [subject |-> <<>>, date |-> <<>>, time |-> <<>>, onClose |-> FALSE]

\* onChange of one of the three inputs.
TypeExam(field, v) ==
    /\ ~examForm.onClose
    /\ examForm[field] # v
    /\ examForm' = [examForm EXCEPT ![field] = v]
    /\ UNCHANGED <<dashboard, contactForm, contactsTable, exams, replyVars, roleVars,
                   resolverVars, loadVars, alertShown, consoleError>>

ExamAcceptedSubjectOnly(f) == f.subject # <<>>

\* if (subject && date && time)
ExamAccepted(f) == f.subject # <<>> /\ f.date # <<>> /\ f.time # <<>>

\* ExamForm.handleSubmit: addExam({ subject, date, time }) and onClose().
SubmitExam ==
    /\ ~examForm.onClose
    /\ IF ExamAccepted(examForm)
       THEN /\ exams' = exams \cup {[subject |-> examForm.subject,
                                     date |-> examForm.date, time |-> examForm.time]}
            /\ examForm' = [examForm EXCEPT !.onClose = TRUE]
       ELSE UNCHANGED <<exams, examForm>>
    /\ UNCHANGED <<dashboard, contactForm, contactsTable, replyVars, roleVars, resolverVars,
                   loadVars, alertShown, consoleError>>

\* -------------------------------------------- Admin without role check

\* useState([]) twice and useState(true), before the effect has run; viewer is
\* whoever the browser is signed in as when the route mounts the component.
NewDashboard ==
    [mounted |-> FALSE, viewer |-> NoUser, awaiting |-> "nothing",
     complaintsData |-> None, complaints |-> <<>>, contacts |-> <<>>,
     loading |-> TRUE]

\* The route mounts the component and its effect calls fetchData, which sends
\* the complaints read.
MountDashboard(viewer) ==
    /\ ~dashboard.mounted
    /\ dashboard' = [dashboard EXCEPT !.mounted = TRUE, !.viewer = viewer,
                                      !.awaiting = "complaints"]
    /\ UNCHANGED <<contactForm, contactsTable, examForm, exams, replyVars, roleVars,
                   resolverVars, loadVars, alertShown, consoleError>>

\* The complaints read resolves, with rows or with data null, and fetchData
\* sends the contacts read.
DashboardComplaintsRead ==
    /\ dashboard.awaiting = "complaints"
    /\ \E ok \in BOOLEAN :
          dashboard' = [dashboard EXCEPT
                           !.complaintsData =
                               IF ok THEN Some(SelectComplaints(complaintsTable))
                               ELSE None,
                           !.awaiting = "contacts"]
    /\ UNCHANGED <<contactForm, contactsTable, examForm, exams, replyVars, roleVars,
                   resolverVars, loadVars, alertShown, consoleError>>

\* The contacts rows in the order of the read; rows carry no created_at here
\* and are listed as the set gives them.
RECURSIVE SelectContacts(_)
SelectContacts(rows) ==
    IF rows = {} THEN <<>>
    ELSE LET row == CHOOSE r \in rows : TRUE
         IN <<row>> \o SelectContacts(rows \ {row})

\* The contacts read resolves: the setters for the data that came, then
\* setLoading(false).
DashboardContactsRead ==
    /\ dashboard.awaiting = "contacts"
    /\ \E ok \in BOOLEAN :
          dashboard' = [dashboard EXCEPT
                           !.complaints =
                               IF dashboard.complaintsData # None
                               THEN dashboard.complaintsData[1] ELSE @,
                           !.contacts =
                               IF ok THEN SelectContacts(contactsTable) ELSE @,
                           !.awaiting = "nothing",
                           !.loading = FALSE]
    /\ UNCHANGED <<contactForm, contactsTable, examForm, exams, replyVars, roleVars,
                   resolverVars, loadVars, alertShown, consoleError>>

\* The visitor leaves the route.
UnmountDashboard ==
    /\ dashboard.mounted /\ dashboard.awaiting = "nothing"
    /\ dashboard' = NewDashboard
    /\ UNCHANGED <<contactForm, contactsTable, examForm, exams, replyVars, roleVars,
                   resolverVars, loadVars, alertShown, consoleError>>

\* ------------------------------------------------- role management runs

\* Session s1 is the panel of admin a1, loaded; session s2 is a newly mounted
\* component without a user. Account a2 has no role row.
InitRoles ==
    /\ complaintsTable = [c \in ComplaintIds |-> NewComplaint(c)]
    /\ userRolesTable = {RoleRow(1, "a1", "admin", "a1")}
    /\ nextRoleId = 2
    /\ roleLookups = {} /\ userReads = {} /\ roleReads = {} /\ complaintReads = {}
    /\ roleWrites = {} /\ replyWrites = {}
    /\ user = [s \in Sessions |-> IF s = "s1" THEN "a1" ELSE NoUser]
    /\ currentUserRole = [s \in Sessions |-> IF s = "s1" THEN "admin" ELSE "user"]
    /\ isLoading = [s \in Sessions |-> s # "s1"]
    /\ pendingLoad = [s \in Sessions |-> {}]
    /\ lateLoad = [s \in Sessions |-> {}]
    /\ users = [s \in Sessions |->
                   IF s = "s1" THEN OrderByCreatedDesc(UsersTable) ELSE <<>>]
    /\ userRoles = [s \in Sessions |->
                   IF s = "s1" THEN OrderByCreatedDesc(userRolesTable) ELSE <<>>]
    /\ complaints = [s \in Sessions |->
                   IF s = "s1" THEN SelectComplaints(complaintsTable) ELSE <<>>]
    /\ showRoleModal = [s \in Sessions |-> FALSE]
    /\ selectedUser = [s \in Sessions |-> NoUser]
    /\ newRole = [s \in Sessions |-> "user"]
    /\ showReplyModal = [s \in Sessions |-> FALSE]
    /\ selectedComplaint = [s \in Sessions |-> NoComplaint]
    /\ replyMessage = [s \in Sessions |-> <<>>]
    /\ isReplying = [s \in Sessions |-> FALSE]
    /\ alertShown = [s \in Sessions |-> ""]
    /\ consoleError = [s \in Sessions |-> ""]
    /\ returnedEarly = [s \in Sessions |-> FALSE]
    /\ contactForm = NewContactForm /\ contactsTable = {}
    /\ examForm = NewExamForm /\ exams = {}
    /\ dashboard = NewDashboard
    /\ scenario = "fresh"

\* The session whose operator manages roles, and the session accounts sign in to.
Managers == {"s1"}
Visitors == {"s2"}

\* The roles the operator of these runs hands out.
Granted == {"user", "moderator"}

\* The operator manages the roles of the subject account while the subject
\* signs in and out of its own session.
NextRoles ==
    \/ \E s \in Managers : ClickManageRole(s, Subject)
    \/ \E s \in Managers, role \in Granted : SelectNewRole(s, role)
    \/ \E s \in Managers : CancelRole(s)
    \/ \E s \in Managers : ClickAssignRole(s)
    \/ \E s \in Managers, w \in roleWrites : AssignSucceeded(s, w)
    \/ \E s \in Managers, w \in roleWrites : AssignFailed(s, w)
    \/ \E s \in Managers, roleId \in 1..MaxRows : RemoveRole(s, roleId)
    \/ \E s \in Managers, w \in roleWrites : RemoveSucceeded(s, w)
    \/ \E s \in Managers, w \in roleWrites : RemoveFailed(s, w)
    \/ \E r \in roleReads : ServeRoleRead(r)
    \/ \E s \in Managers, r \in roleReads : ReturnRoleRead(s, r)
    \/ \E s \in Visitors, u \in {Subject, NoUser} : SignInOut(s, u)
    \/ \E q \in roleLookups : ServeLookup(q)
    \/ \E s \in Visitors, q \in roleLookups : ReturnLookup(s, q)

SpecRoles == InitRoles /\ [][NextRoles]_vars

\* ------------------------------------------------------- resolver runs

\* The user_roles tables assignRole can have built on the first admin's row:
\* rows of at most MaxRows generated ids.
AssignedRows ==
    {RoleRow(id, uid, role, "a1") : id \in 2..MaxRows, uid \in Accounts, role \in Roles}

StoredTables ==
    {{RoleRow(1, "a1", "admin", "a1")} \cup T : T \in
        {T \in SUBSET AssignedRows : \A r1, r2 \in T : r1.id = r2.id => r1 = r2}}

\* Newly mounted components without a user, over any stored table.
InitResolver ==
    /\ complaintsTable = [c \in ComplaintIds |-> NewComplaint(c)]
    /\ userRolesTable \in StoredTables
    /\ nextRoleId = MaxRows + 1
    /\ roleLookups = {} /\ userReads = {} /\ roleReads = {} /\ complaintReads = {}
    /\ roleWrites = {} /\ replyWrites = {}
    /\ user = [s \in Sessions |-> NoUser]
    /\ currentUserRole = [s \in Sessions |-> "user"]
    /\ isLoading = [s \in Sessions |-> TRUE]
    /\ pendingLoad = [s \in Sessions |-> {}]
    /\ lateLoad = [s \in Sessions |-> {}]
    /\ users = [s \in Sessions |-> <<>>]
    /\ userRoles = [s \in Sessions |-> <<>>]
    /\ complaints = [s \in Sessions |-> <<>>]
    /\ showRoleModal = [s \in Sessions |-> FALSE]
    /\ selectedUser = [s \in Sessions |-> NoUser]
    /\ newRole = [s \in Sessions |-> "user"]
    /\ showReplyModal = [s \in Sessions |-> FALSE]
    /\ selectedComplaint = [s \in Sessions |-> NoComplaint]
    /\ replyMessage = [s \in Sessions |-> <<>>]
    /\ isReplying = [s \in Sessions |-> FALSE]
    /\ alertShown = [s \in Sessions |-> ""]
    /\ consoleError = [s \in Sessions |-> ""]
    /\ returnedEarly = [s \in Sessions |-> FALSE]
    /\ contactForm = NewContactForm /\ contactsTable = {}
    /\ examForm = NewExamForm /\ exams = {}
    /\ dashboard = NewDashboard
    /\ scenario = "off"

NextResolver ==
    \/ \E s \in Visitors, u \in Accounts \cup {NoUser} : SignInOut(s, u)
    \/ \E q \in roleLookups : ServeLookup(q)
    \/ \E s \in Visitors, q \in roleLookups : ReturnLookup(s, q)
    \/ \E r \in userReads : ServeUserRead(r)
    \/ \E s \in Visitors, r \in userReads : ReturnUserRead(s, r)
    \/ \E r \in roleReads : ServeRoleRead(r)
    \/ \E s \in Visitors, r \in roleReads : ReturnRoleRead(s, r)
    \/ \E r \in complaintReads : ServeComplaintRead(r)
    \/ \E s \in Visitors, r \in complaintReads : ReturnComplaintRead(s, r)

SpecResolver == InitResolver /\ [][NextResolver]_vars

\* ------------------------------------------------- complaint triage runs

\* The account each session's operator signed in with.
Operator(s) == IF s = "s1" THEN "a1" ELSE "a2"

\* Two admins, each with the panel loaded, and two complaints waiting.
InitReply ==
    /\ complaintsTable = [c \in ComplaintIds |-> NewComplaint(c)]
    /\ userRolesTable = {RoleRow(1, "a1", "admin", "a1"), RoleRow(2, "a2", "admin", "a1")}
    /\ nextRoleId = 3
    /\ roleLookups = {} /\ userReads = {} /\ roleReads = {} /\ complaintReads = {}
    /\ roleWrites = {} /\ replyWrites = {}
    /\ user = [s \in Sessions |-> Operator(s)]
    /\ currentUserRole = [s \in Sessions |-> "admin"]
    /\ isLoading = [s \in Sessions |-> FALSE]
    /\ pendingLoad = [s \in Sessions |-> {}]
    /\ lateLoad = [s \in Sessions |-> {}]
    /\ users = [s \in Sessions |-> OrderByCreatedDesc(UsersTable)]
    /\ userRoles = [s \in Sessions |-> OrderByCreatedDesc(userRolesTable)]
    /\ complaints = [s \in Sessions |-> SelectComplaints(complaintsTable)]
    /\ showRoleModal = [s \in Sessions |-> FALSE]
    /\ selectedUser = [s \in Sessions |-> NoUser]
    /\ newRole = [s \in Sessions |-> "user"]
    /\ showReplyModal = [s \in Sessions |-> FALSE]
    /\ selectedComplaint = [s \in Sessions |-> NoComplaint]
    /\ replyMessage = [s \in Sessions |-> <<>>]
    /\ isReplying = [s \in Sessions |-> FALSE]
    /\ alertShown = [s \in Sessions |-> ""]
    /\ consoleError = [s \in Sessions |-> ""]
    /\ returnedEarly = [s \in Sessions |-> FALSE]
    /\ contactForm = NewContactForm /\ contactsTable = {}
    /\ examForm = NewExamForm /\ exams = {}
    /\ dashboard = NewDashboard
    /\ scenario = "off"

\* The session whose operator works the complaints.
Triage == {"s1"}

NextReply ==
    \/ \E s \in Triage, c \in ComplaintIds : ClickReply(s, c)
    \/ \E s \in Triage, d \in Drafts : TypeReply(s, d)
    \/ \E s \in Triage : CancelReply(s)
    \/ \E s \in Triage : ClickSendReply(s)
    \/ \E s \in Triage, w \in replyWrites : ReplySucceeded(s, w)
    \/ \E s \in Triage, w \in replyWrites : ReplyFailed(s, w)
    \/ \E r \in complaintReads : ServeComplaintRead(r)
    \/ \E s \in Triage, r \in complaintReads : ReturnComplaintRead(s, r)

SpecReply == InitReply /\ [][NextReply]_vars

\* The same runs, with the operator's session also losing its signed-in user.
NextReplyAuth ==
    \/ NextReply
    \/ \E s \in Triage : AuthChange(s, NoUser)

SpecReplyAuth == InitReply /\ [][NextReplyAuth]_vars

\* The same runs, with submit events reaching the form under a blank draft.
NextSubmit ==
    \/ NextReply
    \/ \E s \in Triage : SubmitBlankReply(s)

SpecSubmit == InitReply /\ [][NextSubmit]_vars

\* ------------------------------------------------------- gated view runs

\* The draft the operator of these runs types, the complaint they reply to,
\* and the users the auth context hands the view.
Typed == {<<"x">>}
Replied == {"c1"}
Handed == {"a1", NoUser}

\* The admin panel of session s1 replies to complaints while its auth context
\* hands it new users and the resolver runs again.
NextGate ==
    \/ \E s \in Triage, c \in Replied : ClickReply(s, c)
    \/ \E s \in Triage, d \in Typed : TypeReply(s, d)
    \/ \E s \in Triage : ClickSendReply(s)
    \/ \E s \in Triage, w \in replyWrites : ReplySucceeded(s, w)
    \/ \E s \in Triage, w \in replyWrites : ReplyFailed(s, w)
    \/ \E s \in Triage, u \in Handed : SignInOut(s, u)
    \/ \E q \in roleLookups : ServeLookup(q)
    \/ \E s \in Triage, q \in roleLookups : ReturnLookup(s, q)
    \/ \E r \in userReads : ServeUserRead(r)
    \/ \E s \in Triage, r \in userReads : ReturnUserRead(s, r)
    \/ \E r \in roleReads : ServeRoleRead(r)
    \/ \E s \in Triage, r \in roleReads : ReturnRoleRead(s, r)
    \/ \E r \in complaintReads : ServeComplaintRead(r)
    \/ \E s \in Triage, r \in complaintReads : ReturnComplaintRead(s, r)

SpecGate == InitReply /\ [][NextGate]_vars

\* ----------------------------------------------------------- load runs

\* A newly mounted view is handed the admin account again and again; role
\* queries and the reads of loadAdminData are answered in any order.
NextLoad ==
    \/ \E s \in Visitors, u \in Handed : SignInOut(s, u)
    \/ \E q \in roleLookups : ServeLookup(q)
    \/ \E s \in Visitors, q \in roleLookups : ReturnLookup(s, q)
    \/ \E s \in Visitors, q \in roleLookups : ReturnLookupDuringLoad(s, q)
    \/ \E r \in userReads : ServeUserRead(r)
    \/ \E s \in Visitors, r \in userReads : ReturnUserRead(s, r)
    \/ \E r \in roleReads : ServeRoleRead(r)
    \/ \E s \in Visitors, r \in roleReads : ReturnRoleRead(s, r)
    \/ \E r \in complaintReads : ServeComplaintRead(r)
    \/ \E s \in Visitors, r \in complaintReads : ReturnComplaintRead(s, r)

SpecLoad == InitRoles /\ [][NextLoad]_vars

\* ----------------------------------------------------------- form runs

NextForms ==
    \/ \E field \in {"name", "email", "message"}, v \in FieldValues :
          TypeContact(field, v)
    \/ SubmitContact
    \/ \E row \in contactForm.inserts : ContactInserted(row)
    \/ \E row \in contactForm.inserts : ContactInsertFailed(row)
    \/ \E field \in {"subject", "date", "time"}, v \in FieldValues :
          TypeExam(field, v)
    \/ SubmitExam

SpecForms == InitReply /\ [][NextForms]_vars

\* ---------------------------------------------------- admin route runs

\* Visitors open the admin route: the view with the role check in session s2,
\* handed any account or none, and the view without it, opened by anyone.
NextAdminRoute ==
    \/ \E s \in Visitors, u \in Accounts \cup {NoUser} : SignInOut(s, u)
    \/ \E q \in roleLookups : ServeLookup(q)
    \/ \E s \in Visitors, q \in roleLookups : ReturnLookup(s, q)
    \/ \E r \in userReads : ServeUserRead(r)
    \/ \E s \in Visitors, r \in userReads : ReturnUserRead(s, r)
    \/ \E r \in roleReads : ServeRoleRead(r)
    \/ \E s \in Visitors, r \in roleReads : ReturnRoleRead(s, r)
    \/ \E r \in complaintReads : ServeComplaintRead(r)
    \/ \E s \in Visitors, r \in complaintReads : ReturnComplaintRead(s, r)
    \/ \E viewer \in Accounts \cup {NoUser} : MountDashboard(viewer)
    \/ DashboardComplaintsRead
    \/ DashboardContactsRead
    \/ UnmountDashboard

SpecAdminRoute == InitRoles /\ [][NextAdminRoute]_vars

\* ================================================================ claims

ReplyFields(row) == <<row.status, row.admin_reply, row.replied_at, row.replied_by>>

Contact(row) == <<row.id, row.email, row.phone, row.subject, row.message, row.created_at>>

\* C1: every stored complaint is either pending with admin_reply, replied_at
\* and replied_by all absent, or resolved with all three present.
C1_ReplyFieldsAllOrNothing ==
    \A c \in ComplaintIds :
        LET row == complaintsTable[c] IN
        \/ /\ row.status = "pending"
           /\ row.admin_reply = None /\ row.replied_at = None /\ row.replied_by = None
        \/ /\ row.status = "resolved"
           /\ row.admin_reply # None /\ row.replied_at # None /\ row.replied_by # None

\* C7: resolved is terminal: once a stored complaint is resolved, no step
\* changes its status, admin_reply, replied_at or replied_by, so handleReply
\* writes a complaint at most once and only while it is pending.
C7_ResolvedIsTerminal ==
    [][\A c \in ComplaintIds :
          complaintsTable[c].status = "resolved"
              => ReplyFields(complaintsTable'[c]) = ReplyFields(complaintsTable[c])]_vars

\* C8: a handleReply call under an empty or whitespace-only draft issues no
\* store write, leaves the store (so the selected complaint's status) as it is
\* and does not touch isReplying.
C8_BlankReplyRejected ==
    [][\A s \in Sessions :
          (HandleReply(s) /\ Trim(replyMessage[s]) = <<>>)
              => /\ replyWrites' = replyWrites
                 /\ complaintsTable' = complaintsTable
                 /\ isReplying' = isReplying]_vars

\* C8 witness: the handler has returned early under the draft " " with a
\* pending complaint selected, nothing in flight and isReplying false.
C8_Witness ==
    /\ returnedEarly["s1"]
    /\ ReplyModalOpen("s1")
    /\ replyMessage["s1"] = <<" ">>
    /\ complaintsTable[selectedComplaint["s1"]].status = "pending"
    /\ replyWrites = {}
    /\ ~isReplying["s1"]

\* The draft without its leading and trailing whitespace, stated apart from
\* Trim: text t with whitespace runs before and after it makes up d.
IsTrimOf(t, d) ==
    /\ t # <<>> => Head(t) \notin WhiteSpace /\ t[Len(t)] \notin WhiteSpace
    /\ \E i \in 0..Len(d) : \E j \in i..Len(d) :
          /\ t = SubSeq(d, i + 1, j)
          /\ \A k \in (1..i) \cup ((j + 1)..Len(d)) : d[k] \in WhiteSpace

\* C9: a successful handleReply on a stored-pending complaint C under the
\* non-blank draft d changes only C: C becomes resolved, with admin_reply the
\* trimmed d, a replied_at and replied_by the acting admin's id; C's contact
\* columns and every other complaint stay as they are.
C9_ReplyWritesOnlyItsComplaint ==
    [][\A s \in Sessions :
          /\ (HandleReply(s) /\ ~ReplyRejected(s))
                => \E w \in replyWrites' :
                      /\ w.s = s /\ w.id = selectedComplaint[s]
                      /\ w.patch.admin_reply # None
                      /\ IsTrimOf(w.patch.admin_reply[1], replyMessage[s])
          /\ \A w \in replyWrites :
                (ReplySucceeded(s, w) /\ complaintsTable[w.id].status = "pending")
                    => /\ complaintsTable'[w.id].status = "resolved"
                       /\ complaintsTable'[w.id].admin_reply = w.patch.admin_reply
                       /\ complaintsTable'[w.id].replied_at # None
                       /\ complaintsTable'[w.id].replied_by = Some(Operator(s))
                       /\ Contact(complaintsTable'[w.id]) = Contact(complaintsTable[w.id])
                       /\ \A c \in ComplaintIds \ {w.id} :
                             complaintsTable'[c] = complaintsTable[c]]_vars

\* C10: when the store rejects handleReply's update the store is as before (a
\* pending complaint stays pending), the failure alert is shown, the modal, the
\* selected complaint and the draft are as they were, no complaints read is
\* started and isReplying is false again.
C10_FailedReplyKeepsDraft ==
    [][\A s \in Sessions : \A w \in replyWrites :
          ReplyFailed(s, w)
              => /\ complaintsTable' = complaintsTable
                 /\ alertShown'[s] = "Failed to send reply. Please try again."
                 /\ showReplyModal'[s] = showReplyModal[s]
                 /\ selectedComplaint'[s] = selectedComplaint[s]
                 /\ replyMessage'[s] = replyMessage[s]
                 /\ complaintReads' = complaintReads
                 /\ ~isReplying'[s]]_vars

\* C10 witness: after a rejected update the modal is open on c1, still pending
\* in the store, with the draft "x " kept, nothing in flight and isReplying
\* false.
C10_Witness ==
    /\ alertShown["s1"] = "Failed to send reply. Please try again."
    /\ ReplyModalOpen("s1")
    /\ selectedComplaint["s1"] = "c1"
    /\ complaintsTable["c1"].status = "pending"
    /\ replyMessage["s1"] = <<"x", " ">>
    /\ replyWrites = {} /\ complaintReads = {}
    /\ ~isReplying["s1"]

\* C2: every account has zero or one user_roles row.
C2_OneRowPerAccount ==
    \A a \in Accounts : Cardinality(RowsOf(userRolesTable, a)) <= 1

\* C3: a successful assignRole for an account that already has a row with
\* another role leaves exactly one row for the account, holding the new role.
C3_SecondAssignReplaces ==
    [][\A s \in Sessions, w \in roleWrites :
          (/\ AssignSucceeded(s, w)
           /\ \E r \in RowsOf(userRolesTable, w.user_id) : r.role # w.role)
          => /\ Cardinality(RowsOf(userRolesTable', w.user_id)) = 1
             /\ \A r \in RowsOf(userRolesTable', w.user_id) : r.role = w.role]_vars

\* C4: when the role query of a signed-in account finds no row, or ends in a
\* store error or an exception, checkUserRole sets currentUserRole to user and
\* shows the caller nothing.
C4_FailedLookupResolvesUser ==
    [][\A s \in Sessions, q \in roleLookups :
          (/\ ReturnLookup(s, q)
           /\ q.res[1].fail # "none" \/ q.res[1].rows = {})
          => /\ currentUserRole'[s] = "user"
             /\ alertShown' = alertShown]_vars

C4_Witness ==
    /\ user["s2"] # NoUser /\ LookupsOf("s2") = {}
    /\ consoleError["s2"] = "Error checking user role:"
    /\ users["s2"] # <<>>
    /\ currentUserRole["s2"] = "user"

\* The answer a query gets by this step.
Answered(q) == {a \in roleLookups' \ roleLookups : a.s = q.s /\ a.uid = q.uid}

\* C5: a role query answered without store error reads the rows of its
\* account, and when that is exactly one row checkUserRole sets
\* currentUserRole to the role stored in it.
C5_OneRowResolvesItsRole ==
    [][/\ \A q \in roleLookups :
             ServeLookup(q) =>
                \A a \in Answered(q) :
                   a.res[1].fail = "none" =>
                      a.res[1].rows = RowsOf(userRolesTable, q.uid)
       /\ \A s \in Sessions, q \in roleLookups :
             (/\ ReturnLookup(s, q)
              /\ q.res[1].fail = "none"
              /\ Cardinality(q.res[1].rows) = 1)
             => \A r \in q.res[1].rows : currentUserRole'[s] = r.role]_vars

C5_Witness ==
    /\ user["s2"] = "a2" /\ LookupsOf("s2") = {}
    /\ \E r \in userRolesTable :
          RowsOf(userRolesTable, "a2") = {r} /\ r.role = "moderator"
    /\ currentUserRole["s2"] = "moderator"

\* C6: for the subject account, which starts without a role row, a role query
\* the store answers without error resolves to user before any assignment, to
\* moderator after the successful assignRole(subject, moderator), and to user
\* again after the successful removal of that row.
C6_AssignThenRemove ==
    [][/\ \A q \in roleLookups :
             (ServeLookup(q) /\ q.uid = Subject) =>
                \A a \in Answered(q) :
                   a.res[1].fail = "none" =>
                      /\ scenario \in {"fresh", "removed"} => a.res[1].rows = {}
                      /\ scenario = "assigned" =>
                            /\ Cardinality(a.res[1].rows) = 1
                            /\ \A r \in a.res[1].rows : r.role = "moderator"
       /\ \A s \in Sessions, q \in roleLookups :
             (ReturnLookup(s, q) /\ q.uid = Subject /\ q.res[1].fail = "none") =>
                /\ q.res[1].rows = {} => currentUserRole'[s] = "user"
                /\ (/\ Cardinality(q.res[1].rows) = 1
                    /\ \A r \in q.res[1].rows : r.role = "moderator")
                   => currentUserRole'[s] = "moderator"]_vars

C6_Witness ==
    /\ scenario = "removed"
    /\ user["s2"] = Subject
    /\ currentUserRole["s2"] = "moderator"
    /\ \E q \in LookupsOf("s2") :
          q.res # None /\ q.res[1].fail = "none" /\ q.res[1].rows = {}

\* C11: when the store rejects the upsert of assignRole, the user_roles table
\* and the userRoles view are unchanged, the role modal and the selected user
\* are as they were, the failure alert is shown, and neither a re-fetch nor
\* another upsert is issued.
C11_FailedAssignChangesNothing ==
    [][\A s \in Sessions, w \in roleWrites :
          AssignFailed(s, w)
          => /\ userRolesTable' = userRolesTable
             /\ userRoles' = userRoles
             /\ showRoleModal' = showRoleModal
             /\ selectedUser' = selectedUser
             /\ alertShown'[s] = "Failed to assign role. Please try again."
             /\ roleReads' = roleReads
             /\ roleWrites' = roleWrites \ {w}]_vars

C11_Witness ==
    /\ alertShown["s1"] = "Failed to assign role. Please try again."
    /\ RoleModalOpen("s1") /\ selectedUser["s1"] = "a2"
    /\ RowsOf(userRolesTable, "a2") = {} /\ GetUserRole("s1", "a2") = "user"
    /\ roleWrites = {} /\ roleReads = {}

ReadsOf(s) ==
    <<{r \in userReads : r.s = s}, {r \in roleReads : r.s = s},
      {r \in complaintReads : r.s = s}>>

WaitingNext(s) ==
    <<{r \in userReads' : r.s = s /\ r.res = None},
      {r \in roleReads' : r.s = s /\ r.res = None},
      {r \in complaintReads' : r.s = s /\ r.res = None}>>

IssuesRead(s) ==
    \E i \in 1..3 : WaitingNext(s)[i] \ ReadsOf(s)[i] # {}

StartsLoadAdminData(s) ==
    \/ pendingLoad'[s] = AllCollections /\ pendingLoad[s] = {}
    \/ lateLoad'[s] = AllCollections /\ lateLoad[s] = {}

UsesPanel(s) ==
    \/ \E c \in ComplaintIds : ClickReply(s, c)
    \/ \E d \in Drafts : TypeReply(s, d)
    \/ ClickSendReply(s)

\* C13: loadAdminData starts only with currentUserRole admin, the panel is
\* used only with currentUserRole admin, and a view whose role is not admin
\* issues no collection read.
C13_ReadsOnlyAsAdmin ==
    [][\A s \in Sessions :
          /\ StartsLoadAdminData(s) => currentUserRole'[s] = "admin"
          /\ UsesPanel(s) => currentUserRole[s] = "admin"
          /\ IssuesRead(s) =>
                currentUserRole[s] = "admin" \/ currentUserRole'[s] = "admin"]_vars

\* C13 apart from re-fetches: loadAdminData starts only with currentUserRole
\* admin, the panel is used only with currentUserRole admin, and a view whose
\* role is not admin issues no collection read other than the re-fetch that
\* ends a write the panel started.
C13_LoadsOnlyAsAdmin ==
    [][\A s \in Sessions :
          /\ StartsLoadAdminData(s) => currentUserRole'[s] = "admin"
          /\ UsesPanel(s) => currentUserRole[s] = "admin"
          /\ IssuesRead(s) =>
                \/ currentUserRole[s] = "admin" \/ currentUserRole'[s] = "admin"
                \/ \E w \in replyWrites : ReplySucceeded(s, w)]_vars

C13_Witness ==
    /\ consoleError["s1"] = "Error checking user role:"
    /\ currentUserRole["s1"] = "admin" /\ isLoading["s1"]
    /\ pendingLoad["s1"] = AllCollections
    /\ \E r \in complaintReads : r.s = "s1" /\ r.join

\* What a returning read makes of the three views: the view of its collection
\* becomes the rows read, or, after a failed read, becomes onFailure with the
\* failure logged; the two other views are untouched and the last read of a
\* load makes the view ready.
ReadReturns(s, r, coll, viewNext, message, onFailure) ==
    /\ IF r.res[1].error
       THEN viewNext = onFailure /\ consoleError'[s] = message
       ELSE viewNext = r.res[1].data
    /\ coll # "users" => users' = users
    /\ coll # "user_roles" => userRoles' = userRoles
    /\ coll # "complaints" => complaints' = complaints
    /\ (r.join /\ (IF r.late THEN lateLoad[s] ELSE pendingLoad[s]) = {coll})
       => ~isLoading'[s]

\* C14: a returning read of users, user_roles or complaints, in a load or in
\* a re-fetch, sets its view to the rows read, or empties it and logs the
\* failure when the read failed, leaves the two other views alone, and the
\* view still becomes ready.
C14_FailedReadEmptiesView ==
    [][\A s \in Sessions :
          /\ \A r \in userReads : ReturnUserRead(s, r) =>
                ReadReturns(s, r, "users", users'[s],
                            "Error loading users:", <<>>)
          /\ \A r \in roleReads : ReturnRoleRead(s, r) =>
                ReadReturns(s, r, "user_roles", userRoles'[s],
                            "Error loading user roles:", <<>>)
          /\ \A r \in complaintReads : ReturnComplaintRead(s, r) =>
                ReadReturns(s, r, "complaints", complaints'[s],
                            "Error loading complaints:", <<>>)]_vars

\* C14 with the failed view kept: a returning read of users, user_roles or
\* complaints, in a load or in a re-fetch, sets its view to the rows read, or
\* leaves it as it was and logs the failure when the read failed, leaves the
\* two other views alone, and the view still becomes ready.
C14_FailedReadKeepsView ==
    [][\A s \in Sessions :
          /\ \A r \in userReads : ReturnUserRead(s, r) =>
                ReadReturns(s, r, "users", users'[s],
                            "Error loading users:", users[s])
          /\ \A r \in roleReads : ReturnRoleRead(s, r) =>
                ReadReturns(s, r, "user_roles", userRoles'[s],
                            "Error loading user roles:", userRoles[s])
          /\ \A r \in complaintReads : ReturnComplaintRead(s, r) =>
                ReadReturns(s, r, "complaints", complaints'[s],
                            "Error loading complaints:", complaints[s])]_vars

C14_Witness ==
    /\ currentUserRole["s1"] = "admin" /\ ~isLoading["s1"]
    /\ pendingLoad["s1"] = {} /\ complaintReads = {} /\ userReads = {} /\ roleReads = {}
    /\ consoleError["s1"] = "Error loading complaints:"
    /\ complaintsTable["c1"].status = "resolved"
    /\ \E i \in DOMAIN complaints["s1"] :
          complaints["s1"][i].id = "c1" /\ complaints["s1"][i].status = "pending"
    /\ users["s1"] = OrderByCreatedDesc(UsersTable)
    /\ userRoles["s1"] = OrderByCreatedDesc(userRolesTable)

\* The reads of loadAdminData a session still awaits.
Awaited(s) == pendingLoad[s] \cup lateLoad[s]

\* C15: a loadAdminData issues its three reads together and sets isLoading;
\* isLoading is true while the session awaits any of the three reads of a
\* loadAdminData, answered or failed and in any order, and is false once the
\* last of them has returned.
C15_LoadingUntilAllRead ==
    [][\A s \in Sessions :
          /\ (pendingLoad'[s] # {} \/ lateLoad'[s] # {}) => isLoading'[s]
          /\ (Awaited(s) # {} /\ pendingLoad'[s] = {} /\ lateLoad'[s] = {})
             => ~isLoading'[s]
          /\ (pendingLoad[s] = {} /\ pendingLoad'[s] # {})
             => /\ pendingLoad'[s] = AllCollections
                /\ ReadRequest(s, TRUE) \in userReads' \cap roleReads' \cap complaintReads']_vars

\* C16: a successful removeRole reports success, leaves the store unchanged
\* when the row is absent, gives the store a second removal of the same row
\* would leave as it is, and leaves the account of the removed row without a
\* row, so that it resolves to user.
C16_RemoveIsIdempotent ==
    [][\A s \in Sessions, w \in roleWrites :
          RemoveSucceeded(s, w)
          => /\ alertShown'[s] = "Role removed successfully!"
             /\ (\A r \in userRolesTable : r.id # w.id)
                => userRolesTable' = userRolesTable
             /\ DeleteRole(userRolesTable', w.id) = userRolesTable'
             /\ \A r \in userRolesTable :
                   r.id = w.id => RowsOf(userRolesTable', r.user_id) = {}]_vars

\* C17: ContactForm.handleSubmit with name, email or message empty sets the
\* error message, issues no insert and calls neither onSuccess nor onClose;
\* ExamForm.handleSubmit with subject, date or time empty calls neither
\* addExam nor onClose.
C17_MissingFieldNoStoreCall ==
    [][/\ (SubmitContact /\ (\E f \in {"name", "email", "message"} :
                                contactForm[f] = <<>>))
          => /\ contactForm'.error = "Please fill in all fields"
             /\ contactForm'.inserts = contactForm.inserts
             /\ contactsTable' = contactsTable
             /\ ~contactForm'.onSuccess /\ ~contactForm'.onClose
       /\ (SubmitExam /\ (\E f \in {"subject", "date", "time"} : examForm[f] = <<>>))
          => /\ exams' = exams
             /\ ~examForm'.onClose]_vars

C17_Witness ==
    /\ contactForm.error = "Please fill in all fields"
    /\ contactForm.name = <<"x">> /\ contactForm.email = <<"x">>
    /\ contactForm.message = <<>>
    /\ contactForm.inserts = {} /\ contactsTable = {}
    /\ ~contactForm.onSuccess /\ ~contactForm.onClose
    /\ examForm.subject = <<"x">> /\ examForm.time = <<>> /\ ~examForm.onClose
    /\ exams = {}

\* The account's stored role is admin.
StoredAdmin(u) ==
    /\ u # NoUser
    /\ Cardinality(RowsOf(userRolesTable, u)) = 1
    /\ \A r \in RowsOf(userRolesTable, u) : r.role = "admin"

\* C18: a view mounted on the admin route reads and shows admin collections
\* only for an admin: the view with the role check starts loadAdminData only
\* with currentUserRole admin, and the view without it sends its reads and
\* holds complaints only when its viewer's stored role is admin.
C18_ResolverGatesAdminViews ==
    [][/\ \A s \in Sessions :
             StartsLoadAdminData(s) => currentUserRole'[s] = "admin"
       /\ (dashboard'.awaiting # "nothing" \/ dashboard'.complaints # <<>>)
          => StoredAdmin(dashboard'.viewer)]_vars

\* C19: currentUserRole is admin only while a user is signed in and no role
\* query of the view is still to return.
C19_AdminRoleIsCurrent ==
    \A s \in Sessions :
       currentUserRole[s] = "admin" => user[s] # NoUser /\ LookupsOf(s) = {}

\* The reply writes of a view that the store has not answered.
ReplyWritesOf(s) == {w \in replyWrites : w.s = s}

\* C20: a view has at most one reply write in flight, and isReplying is true
\* exactly while it has one.
C20_OneReplyInFlight ==
    \A s \in Sessions :
       /\ Cardinality(ReplyWritesOf(s)) <= 1
       /\ isReplying[s] <=> ReplyWritesOf(s) # {}

C20_Witness ==
    /\ isReplying["s1"]
    /\ Cardinality(ReplyWritesOf("s1")) = 1
    /\ ReplyModalOpen("s1") /\ ~SendReplyEnabled("s1")
    /\ replyMessage["s1"] = <<"x">>
    /\ alertShown["s1"] = "Failed to send reply. Please try again."

====
